---- MODULE Spec2Model ----
(***************************************************************************)
(* local-synk: the task scheduler of main.py (TaskManager and the two      *)
(* SyncDialog handlers that create tasks).                                 *)
(*                                                                         *)
(* Time is a discrete clock; one day is DayLen ticks.  A datetime is the   *)
(* tick number, its ISO string is the pair (date, time of day).  Every     *)
(* thread is a small program counter machine; a step is one access to the  *)
(* shared document, the active set or the clock.                           *)
(*                                                                         *)
(* Spec and SpecApi follow the scheduler and take a sync_files call as one *)
(* step.  SpecSync, SpecSyncFault and SpecSyncPar follow sync_files file   *)
(* by file on a source tree and a destination.  SpecBoot, SpecBad and      *)
(* SpecLegacy start the scheduler on documents with malformed, incomplete  *)
(* or legacy records.                                                      *)
(***************************************************************************)
EXTENDS Integers, Sequences, FiniteSets, TLC

\* ---------------------------------------------------------------- bounds
DayLen == 2
MaxInit == 1
MaxOps == 1
MaxBoot == 2
MaxFiles == 3
MaxMtime == 2
MaxRuns == 2

StartTime == DayLen
MaxTime == 3 * DayLen
TaskIds == 1..(MaxInit + MaxOps + 2 * MaxBoot)
NoId == 0
UnitIds == 1..(MaxInit + MaxOps + MaxBoot)

\* ------------------------------------------------------- dates and times
dateOf(t) == t \div DayLen
timeOf(t) == t % DayLen
combine(d, tod) == d * DayLen + tod
isoformat(t) == [date |-> dateOf(t), tod |-> timeOf(t)]
fromisoformat(s) == combine(s.date, s.tod)
None == [date |-> 0 - 1, tod |-> 0 - 1]
timedelta_days_1 == DayLen

\* a scheduled_datetime string that is not an ISO date-time
Malformed == [date |-> 0 - 2, tod |-> 0 - 2]

\* datetime.fromisoformat(task['scheduled_datetime']) raises: KeyError for a
\* record without the key, ValueError for a string it cannot parse
raises(task) ==
    "scheduled_datetime" \notin DOMAIN task \/ task.scheduled_datetime = Malformed

\* ------------------------------------------------------------ task store
Task(id, sdt, repeat, template) ==
    [id |-> id, scheduled_datetime |-> isoformat(sdt), is_repeat |-> repeat,
     is_template |-> template, last_ran |-> None]

ids(tasks) == {tasks[i].id : i \in DOMAIN tasks}

RECURSIVE without(_, _)
without(tasks, id) ==
    IF tasks = <<>> THEN <<>>
    ELSE IF Head(tasks).id # id THEN <<Head(tasks)>> \o without(Tail(tasks), id)
    ELSE without(Tail(tasks), id)

dict_update(task, updates) ==
    [f \in DOMAIN task |-> IF f \in DOMAIN updates THEN updates[f] ELSE task[f]]

firstIndex(tasks, id) ==
    IF id \in ids(tasks)
    THEN CHOOSE i \in DOMAIN tasks :
            tasks[i].id = id /\ \A j \in 1..(i - 1) : tasks[j].id # id
    ELSE 0

\* an update that adds a record for an id it does not find
updated_or_inserted(tasks, id, updates) ==
    IF firstIndex(tasks, id) = 0
    THEN Append(tasks, dict_update(Task(id, 0, FALSE, FALSE), updates))
    ELSE [tasks EXCEPT ![firstIndex(tasks, id)] = dict_update(@, updates)]

\* lines 99-102: the first record with the id is updated, no record is added
updated(tasks, id, updates) ==
    IF firstIndex(tasks, id) = 0 THEN tasks
    ELSE [tasks EXCEPT ![firstIndex(tasks, id)] = dict_update(@, updates)]

\* lines 64-69: the fields load_tasks adds to a record that lacks them
Defaults == {"id", "is_template", "last_ran"}

with_defaults(task, uuid4) ==
    [f \in DOMAIN task \cup Defaults |->
        IF f \in DOMAIN task THEN task[f]
        ELSE IF f = "id" THEN uuid4
        ELSE IF f = "is_template" THEN FALSE
        ELSE None]

\* a generator that returns the value it returned before
uuid4_again(next) == next

\* line 65: every call of uuid.uuid4 returns a value not returned before
uuid4_after(next) == next + 1

\* lines 63-69: the migration loop; next is the next value of uuid4
RECURSIVE migrate(_, _)
migrate(tasks, next) ==
    IF tasks = <<>> THEN <<>>
    ELSE <<with_defaults(Head(tasks), next)>>
         \o migrate(Tail(tasks),
                    IF "id" \in DOMAIN Head(tasks) THEN next ELSE uuid4_after(next))

\* how many uuid4 values the migration loop draws
uuid4_drawn(tasks) ==
    Cardinality({i \in DOMAIN tasks : "id" \notin DOMAIN tasks[i]})

\* ----------------------------------------------------------------- state
VARIABLES
    file,          \* the persisted document (sync_tasks.json): a list of tasks
    active_tasks,  \* TaskManager.active_tasks
    clock,         \* the wall clock
    main,          \* the main thread: startup recovery, then the dialog handlers
    units,         \* the threads started with threading.Thread, in start order;
                   \* a unit's log lists what a one-time unit has done so far,
                   \* late counts a unit's syncs after its task's removal
    syncs,         \* how many sync_files calls ran for each task id
    ops,           \* dialog requests still to come
    nextId,        \* the next uuid4
    missed,        \* ids startup recovery inspected at or after their time
    removed,       \* ids of active tasks whose explicit removal has returned
    source,        \* the source tree of sync_files: file name -> modification time
    dest,          \* the entries under destination/<source name>
    faults,        \* which source files the file system refuses to copy, and how
    counters,      \* copied_count, skipped_count, error_count, error_files of
                   \* the TaskManager instance
    calls          \* the threads that call sync_files, each with the position
                   \* of its call and the list of what that call really did

\* the synchronization engine's part of the state
engine == <<source, dest, faults, counters, calls>>

\* the scheduler's part of the state
scheduler == <<file, active_tasks, clock, main, units, syncs, ops, nextId, missed, removed>>

vars == <<file, active_tasks, clock, main, units, syncs, ops, nextId, missed, removed,
          source, dest, faults, counters, calls>>

\* lines 113-116: the counters of a sync_files call that has just begun
Zero == [copied_count |-> 0, skipped_count |-> 0, error_count |-> 0,
         error_files |-> <<>>]

\* no sync_files call is followed file by file
EngineIdle ==
    /\ source = <<>>
    /\ dest = <<>>
    /\ faults = <<>>
    /\ counters = Zero
    /\ calls = <<>>

Unit(task) ==
    [pc |-> "rt_check", task |-> task, next_run |-> 0, tasks |-> <<>>,
     updates |-> [last_ran |-> None], late |-> 0, log |-> <<>>]

SyncUnit ==
    [pc |-> "sync_now", task |-> Task(NoId, 0, FALSE, FALSE), next_run |-> 0,
     tasks |-> <<>>, updates |-> [last_ran |-> None], late |-> 0,
     log |-> <<>>]

MainIdle ==
    [pc |-> "ui", tasks |-> <<>>, i |-> 0, today |-> 0, next_run |-> 0,
     now |-> 0, loaded |-> <<>>, id |-> NoId,
     task |-> Task(NoId, 0, FALSE, FALSE), ret |-> "ui"]

InitTimes == {StartTime - 1, StartTime, StartTime + 1}

InitRecords(id) ==
    {Task(id, 0, FALSE, TRUE)}
    \cup {Task(id, t, r, FALSE) : t \in InitTimes, r \in BOOLEAN}

InitFiles ==
    UNION {{f \in [1..n -> UNION {InitRecords(i) : i \in 1..MaxInit}] :
              \A i \in 1..n : f[i].id = i} : n \in 0..MaxInit}

Init ==
    /\ file \in InitFiles
    /\ active_tasks = {}
    /\ clock = StartTime
    /\ main = [MainIdle EXCEPT !.pc = "ls_read", !.ret = "ls_iter"]
    /\ units = <<>>
    /\ syncs = [i \in TaskIds \cup {NoId} |-> 0]
    /\ ops = MaxOps
    /\ nextId = MaxInit + 1
    /\ missed = {}
    /\ removed = {}
    /\ EngineIdle

\* ----------------------------------------------------------------- clock
Tick ==
    /\ clock < MaxTime
    /\ clock' = clock + 1
    /\ UNCHANGED <<file, active_tasks, main, units, syncs, ops, nextId, missed, removed, engine>>

\* ------------------------------------------------------- scheduling rules
\* lines 189-192 and 239-242: today's date with the task's time of day, or
\* tomorrow's when that is not after now
next_fire(today, scheduled_time, now) ==
    IF combine(today, scheduled_time) <= now
    THEN combine(today + 1, scheduled_time)
    ELSE combine(today, scheduled_time)

\* lines 228-233: records the startup loop passes over
skipped(task, active) == task.is_template \/ task.id \in active

\* line 250 with < for <=
is_old_strict(scheduled_datetime, now) == scheduled_datetime < now

\* line 250: a one-time task whose time has come at startup is dropped
is_old(scheduled_datetime, now) == scheduled_datetime <= now

\* line 373 with < for <=
not_future_strict(scheduled_datetime, now) == scheduled_datetime < now

\* line 373: the dialog refuses a time that is not in the future
not_future(scheduled_datetime, now) == scheduled_datetime <= now

\* lines 387-391
should_save(save, repeat, scheduled_datetime, now) ==
    save \/ repeat \/ scheduled_datetime > now

\* line 203 anchored to the completion time instead of the trigger time
next_scheduled_from_now(next_run, now) == now + timedelta_days_1

\* line 203
next_scheduled(next_run, now) == next_run + timedelta_days_1

\* a template dispatched like a scheduled task
dispatched_always(task) == TRUE

\* lines 346-347 and 361-362 against 394-401: add_task for a template is not
\* followed by a thread on run_task, add_task for a scheduled task is
dispatched(task) == ~task.is_template

\* lines 172-173: the dispatch guard
already_active(task_id, active) == task_id \in active

\* lines 257-258, 340-344, 401: threading.Thread(...).start()
started(us, unit) == Append(us, unit)

\* --------------------------------------------- main thread: startup recovery
\* load_and_start_tasks, line 225: load_tasks reads the document ...
LoadStartRead ==
    /\ main.pc = "ls_read"
    /\ main' = [main EXCEPT !.tasks = migrate(file, nextId), !.pc = "ls_resave"]
    /\ nextId' = nextId + uuid4_drawn(file)
    /\ UNCHANGED <<file, active_tasks, clock, units, syncs, ops, missed, removed, engine>>

\* ... and writes it back (line 71)
LoadStartResave ==
    /\ main.pc = "ls_resave"
    /\ file' = main.tasks
    /\ main' = [main EXCEPT !.pc = "ls_iter", !.i = 1]
    /\ UNCHANGED <<active_tasks, clock, units, syncs, ops, nextId, missed, removed, engine>>

\* lines 227-258: one record of the loop, up to its first blocking call.
\* Lines 237 and 249 raise on a scheduled_datetime that cannot be parsed; the
\* call is TaskManager() at line 424, outside every try, so the interpreter
\* exits
LoadStartIter ==
    /\ main.pc = "ls_iter"
    /\ IF main.i > Len(main.tasks)
       THEN /\ main' = MainIdle
            /\ UNCHANGED <<units, missed>>
       ELSE LET task == main.tasks[main.i]
                scheduled_datetime == fromisoformat(task.scheduled_datetime)
            IN  IF skipped(task, active_tasks)
                THEN /\ main' = [main EXCEPT !.i = @ + 1]
                     /\ UNCHANGED <<units, missed>>
                ELSE IF raises(task)
                THEN /\ main' = [main EXCEPT !.pc = "exited"]
                     /\ UNCHANGED <<units, missed>>
                ELSE IF task.is_repeat
                THEN /\ main' = [main EXCEPT !.today = dateOf(clock), !.pc = "ls_now"]
                     /\ UNCHANGED <<units, missed>>
                ELSE /\ missed' = IF scheduled_datetime <= clock
                                  THEN missed \cup {task.id} ELSE missed
                     /\ IF is_old(scheduled_datetime, clock)
                        THEN /\ main' = [main EXCEPT !.pc = "rm_read", !.id = task.id,
                                                     !.ret = "ls_iter", !.i = @ + 1]
                             /\ UNCHANGED units
                        ELSE /\ main' = [main EXCEPT !.i = @ + 1]
                             /\ units' = started(units, Unit(task))
    /\ UNCHANGED <<file, active_tasks, clock, syncs, ops, nextId, removed, engine>>

\* line 241: the second reading of the clock, and the choice of next_run
LoadStartNow ==
    /\ main.pc = "ls_now"
    /\ LET task == main.tasks[main.i]
           original_time == timeOf(fromisoformat(task.scheduled_datetime))
       IN  main' = [main EXCEPT !.now = clock,
                                !.next_run = next_fire(main.today, original_time, clock),
                                !.id = task.id,
                                !.pc = "upd_read"]
    /\ UNCHANGED <<file, active_tasks, clock, units, syncs, ops, nextId, missed, removed, engine>>

\* line 244: update_task = load_tasks (read, write back), change, save_tasks
LoadStartUpdateRead ==
    /\ main.pc = "upd_read"
    /\ main' = [main EXCEPT !.loaded = migrate(file, nextId), !.pc = "upd_resave"]
    /\ nextId' = nextId + uuid4_drawn(file)
    /\ UNCHANGED <<file, active_tasks, clock, units, syncs, ops, missed, removed, engine>>

LoadStartUpdateResave ==
    /\ main.pc = "upd_resave"
    /\ file' = main.loaded
    /\ main' = [main EXCEPT !.pc = "upd_save"]
    /\ UNCHANGED <<active_tasks, clock, units, syncs, ops, nextId, missed, removed, engine>>

\* lines 103, 245, 257: the save, the in-memory copy, the thread
LoadStartUpdateSave ==
    /\ main.pc = "upd_save"
    /\ LET next_run == isoformat(main.next_run)
           task == [main.tasks[main.i] EXCEPT !.scheduled_datetime = next_run]
       IN  /\ file' = updated(main.loaded, main.id, [scheduled_datetime |-> next_run])
           /\ units' = started(units, Unit(task))
    /\ main' = [main EXCEPT !.pc = "ls_iter", !.i = @ + 1, !.loaded = <<>>,
                            !.id = NoId, !.today = 0, !.now = 0, !.next_run = 0]
    /\ UNCHANGED <<active_tasks, clock, syncs, ops, nextId, missed, removed, engine>>

\* ------------------------------------------ main thread: remove_task, add_task
RemoveRead ==
    /\ main.pc = "rm_read"
    /\ main' = [main EXCEPT !.loaded = migrate(file, nextId), !.pc = "rm_resave"]
    /\ nextId' = nextId + uuid4_drawn(file)
    /\ UNCHANGED <<file, active_tasks, clock, units, syncs, ops, missed, removed, engine>>

RemoveResave ==
    /\ main.pc = "rm_resave"
    /\ file' = main.loaded
    /\ main' = [main EXCEPT !.pc = "rm_save"]
    /\ UNCHANGED <<active_tasks, clock, units, syncs, ops, nextId, missed, removed, engine>>

RemoveSave ==
    /\ main.pc = "rm_save"
    /\ file' = without(main.loaded, main.id)
    /\ main' = [main EXCEPT !.pc = "rm_discard", !.loaded = <<>>]
    /\ UNCHANGED <<active_tasks, clock, units, syncs, ops, nextId, missed, removed, engine>>

RemoveDiscard ==
    /\ main.pc = "rm_discard"
    /\ active_tasks' = active_tasks \ {main.id}
    /\ removed' = IF main.ret = "ui" /\ main.id \in active_tasks
                  THEN removed \cup {main.id} ELSE removed
    /\ main' = [main EXCEPT !.pc = main.ret, !.id = NoId, !.ret = "ui"]
    /\ UNCHANGED <<file, clock, units, syncs, ops, nextId, missed, engine>>

AddRead ==
    /\ main.pc = "add_read"
    /\ main' = [main EXCEPT !.loaded = migrate(file, nextId), !.pc = "add_resave"]
    /\ nextId' = nextId + uuid4_drawn(file)
    /\ UNCHANGED <<file, active_tasks, clock, units, syncs, ops, missed, removed, engine>>

AddResave ==
    /\ main.pc = "add_resave"
    /\ file' = main.loaded
    /\ main' = [main EXCEPT !.pc = "add_save"]
    /\ UNCHANGED <<active_tasks, clock, units, syncs, ops, nextId, missed, removed, engine>>

\* lines 88-89, then line 401 (a scheduled task) or line 362 (a template)
AddSave ==
    /\ main.pc = "add_save"
    /\ file' = Append(main.loaded, main.task)
    /\ units' = IF dispatched(main.task) THEN started(units, Unit(main.task))
                ELSE units
    /\ main' = MainIdle
    /\ UNCHANGED <<active_tasks, clock, syncs, ops, nextId, missed, removed, engine>>

\* ------------------------------------------------- main thread: the dialog
WhenTimes == StartTime..MaxTime

\* SyncDialog._schedule_sync, lines 365-385 and the first two tests of 387-391
ScheduleSync(when, repeat, save) ==
    /\ main.pc = "ui"
    /\ ops > 0
    /\ ops' = ops - 1
    /\ IF not_future(when, clock)
       THEN UNCHANGED <<main, nextId>>
       ELSE /\ nextId' = nextId + 1
            /\ main' = [main EXCEPT !.task = Task(nextId, when, repeat, FALSE),
                                    !.pc = IF save \/ repeat THEN "add_read"
                                           ELSE "ss_should"]
    /\ UNCHANGED <<file, active_tasks, clock, units, syncs, missed, removed, engine>>

\* line 390: the clock is read again; an unsaved task is still dispatched (401)
ScheduleShouldSave ==
    /\ main.pc = "ss_should"
    /\ IF should_save(FALSE, FALSE, fromisoformat(main.task.scheduled_datetime), clock)
       THEN /\ main' = [main EXCEPT !.pc = "add_read"]
            /\ UNCHANGED units
       ELSE /\ units' = started(units, Unit(main.task))
            /\ main' = MainIdle
    /\ UNCHANGED <<file, active_tasks, clock, syncs, ops, nextId, missed, removed, engine>>

\* SyncDialog.start_sync, lines 338-347, and _save_template, lines 351-361
RunNow(save) ==
    /\ main.pc = "ui"
    /\ ops > 0
    /\ ops' = ops - 1
    /\ units' = started(units, SyncUnit)
    /\ IF save
       THEN /\ nextId' = nextId + 1
            /\ main' = [main EXCEPT !.task = Task(nextId, clock, FALSE, TRUE),
                                    !.pc = "add_read"]
       ELSE UNCHANGED <<main, nextId>>
    /\ UNCHANGED <<file, active_tasks, clock, syncs, missed, removed, engine>>

\* ------------------------------------------------------- execution units
\* daemon threads run as long as the interpreter does
alive == main.pc # "exited"

\* run_task, lines 170-173
RunTaskCheck(u) ==
    /\ alive
    /\ u \in DOMAIN units
    /\ units[u].pc = "rt_check"
    /\ units' = [units EXCEPT ![u].pc =
                    IF already_active(units[u].task.id, active_tasks)
                    THEN "returned" ELSE "rt_add"]
    /\ UNCHANGED <<file, active_tasks, clock, main, syncs, ops, nextId, missed, removed, engine>>

\* run_task, lines 175-180
RunTaskAdd(u) ==
    /\ alive
    /\ u \in DOMAIN units
    /\ units[u].pc = "rt_add"
    /\ active_tasks' = active_tasks \cup {units[u].task.id}
    /\ units' = [units EXCEPT ![u].pc =
                    IF units[u].task.is_repeat THEN "rp_loop" ELSE "ot_start"]
    /\ UNCHANGED <<file, clock, main, syncs, ops, nextId, missed, removed, engine>>

\* _run_one_time_task, lines 210-216: read the clock, sleep if early; an
\* exception of line 210 ends the thread (no handler in run_task)
OneTimeStart(u) ==
    /\ alive
    /\ u \in DOMAIN units
    /\ units[u].pc = "ot_start"
    /\ IF raises(units[u].task)
       THEN units' = [units EXCEPT ![u].pc = "raised"]
       ELSE LET scheduled_datetime == fromisoformat(units[u].task.scheduled_datetime)
            IN  units' = [units EXCEPT
                    ![u].pc = IF scheduled_datetime > clock THEN "ot_sleep"
                              ELSE "ot_sync",
                    ![u].next_run = scheduled_datetime]
    /\ UNCHANGED <<file, active_tasks, clock, main, syncs, ops, nextId, missed, removed, engine>>

\* a sleep that returns at once
OneTimeWake_early(u) ==
    /\ alive
    /\ u \in DOMAIN units
    /\ units[u].pc = "ot_sleep"
    /\ units' = [units EXCEPT ![u].pc = "ot_sync"]
    /\ UNCHANGED <<file, active_tasks, clock, main, syncs, ops, nextId, missed, removed, engine>>

\* line 216: time.sleep returns no earlier than asked
OneTimeWake(u) ==
    /\ alive
    /\ u \in DOMAIN units
    /\ units[u].pc = "ot_sleep"
    /\ clock >= units[u].next_run
    /\ units' = [units EXCEPT ![u].pc = "ot_sync"]
    /\ UNCHANGED <<file, active_tasks, clock, main, syncs, ops, nextId, missed, removed, engine>>

\* line 219
OneTimeSync(u) ==
    /\ alive
    /\ u \in DOMAIN units
    /\ units[u].pc = "ot_sync"
    /\ syncs' = [syncs EXCEPT ![units[u].task.id] = @ + 1]
    /\ units' = [units EXCEPT
            ![u].pc = "upd_read",
            ![u].log = Append(@, "sync"),
            ![u].late = IF units[u].task.id \in removed THEN @ + 1 ELSE @]
    /\ UNCHANGED <<file, active_tasks, clock, main, ops, nextId, missed, removed, engine>>

\* _run_repeat_task, lines 184-195; an exception of line 184 ends the thread
RepeatLoop(u) ==
    /\ alive
    /\ u \in DOMAIN units
    /\ units[u].pc = "rp_loop"
    /\ IF raises(units[u].task)
       THEN units' = [units EXCEPT ![u].pc = "raised"]
       ELSE LET scheduled_time ==
                    timeOf(fromisoformat(units[u].task.scheduled_datetime))
            IN  units' = [units EXCEPT
                    ![u].pc = "rp_sleep",
                    ![u].next_run = next_fire(dateOf(clock), scheduled_time, clock)]
    /\ UNCHANGED <<file, active_tasks, clock, main, syncs, ops, nextId, missed, removed, engine>>

\* line 197
RepeatWake(u) ==
    /\ alive
    /\ u \in DOMAIN units
    /\ units[u].pc = "rp_sleep"
    /\ clock >= units[u].next_run
    /\ units' = [units EXCEPT ![u].pc = "rp_sync"]
    /\ UNCHANGED <<file, active_tasks, clock, main, syncs, ops, nextId, missed, removed, engine>>

\* line 200
RepeatSync(u) ==
    /\ alive
    /\ u \in DOMAIN units
    /\ units[u].pc = "rp_sync"
    /\ syncs' = [syncs EXCEPT ![units[u].task.id] = @ + 1]
    /\ units' = [units EXCEPT
            ![u].pc = "upd_read",
            ![u].late = IF units[u].task.id \in removed THEN @ + 1 ELSE @]
    /\ UNCHANGED <<file, active_tasks, clock, main, ops, nextId, missed, removed, engine>>

\* lines 204-207 and 221: the updates are built, then update_task reads
UnitUpdateRead(u) ==
    /\ alive
    /\ u \in DOMAIN units
    /\ units[u].pc = "upd_read"
    /\ units' = [units EXCEPT
            ![u].pc = "upd_resave",
            ![u].tasks = migrate(file, nextId),
            ![u].updates =
                IF units[u].task.is_repeat
                THEN [last_ran |-> isoformat(clock),
                      scheduled_datetime |->
                          isoformat(next_scheduled(units[u].next_run, clock))]
                ELSE [last_ran |-> isoformat(clock)]]
    /\ nextId' = nextId + uuid4_drawn(file)
    /\ UNCHANGED <<file, active_tasks, clock, main, syncs, ops, missed, removed, engine>>

UnitUpdateResave(u) ==
    /\ alive
    /\ u \in DOMAIN units
    /\ units[u].pc = "upd_resave"
    /\ file' = units[u].tasks
    /\ units' = [units EXCEPT ![u].pc = "upd_save"]
    /\ UNCHANGED <<active_tasks, clock, main, syncs, ops, nextId, missed, removed, engine>>

UnitUpdateSave(u) ==
    /\ alive
    /\ u \in DOMAIN units
    /\ units[u].pc = "upd_save"
    /\ file' = updated(units[u].tasks, units[u].task.id, units[u].updates)
    /\ units' = [units EXCEPT
            ![u].pc = IF units[u].task.is_repeat THEN "rp_loop" ELSE "rm_read",
            ![u].log = IF units[u].task.is_repeat THEN @ ELSE Append(@, "last_ran"),
            ![u].tasks = <<>>,
            ![u].updates = [last_ran |-> None]]
    /\ UNCHANGED <<active_tasks, clock, main, syncs, ops, nextId, missed, removed, engine>>

\* line 222: remove_task
UnitRemoveRead(u) ==
    /\ alive
    /\ u \in DOMAIN units
    /\ units[u].pc = "rm_read"
    /\ units' = [units EXCEPT ![u].pc = "rm_resave", ![u].tasks = migrate(file, nextId)]
    /\ nextId' = nextId + uuid4_drawn(file)
    /\ UNCHANGED <<file, active_tasks, clock, main, syncs, ops, missed, removed, engine>>

UnitRemoveResave(u) ==
    /\ alive
    /\ u \in DOMAIN units
    /\ units[u].pc = "rm_resave"
    /\ file' = units[u].tasks
    /\ units' = [units EXCEPT ![u].pc = "rm_save"]
    /\ UNCHANGED <<active_tasks, clock, main, syncs, ops, nextId, missed, removed, engine>>

UnitRemoveSave(u) ==
    /\ alive
    /\ u \in DOMAIN units
    /\ units[u].pc = "rm_save"
    /\ file' = without(units[u].tasks, units[u].task.id)
    /\ units' = [units EXCEPT ![u].pc = "rm_discard", ![u].tasks = <<>>,
                               ![u].log = Append(@, "remove")]
    /\ UNCHANGED <<active_tasks, clock, main, syncs, ops, nextId, missed, removed, engine>>

UnitRemoveDiscard(u) ==
    /\ alive
    /\ u \in DOMAIN units
    /\ units[u].pc = "rm_discard"
    /\ active_tasks' = active_tasks \ {units[u].task.id}
    /\ units' = [units EXCEPT ![u].pc = "done"]
    /\ UNCHANGED <<file, clock, main, syncs, ops, nextId, missed, removed, engine>>

\* start_sync, lines 340-344: sync_files on a thread of its own
SyncNow(u) ==
    /\ alive
    /\ u \in DOMAIN units
    /\ units[u].pc = "sync_now"
    /\ syncs' = [syncs EXCEPT ![NoId] = @ + 1]
    /\ units' = [units EXCEPT ![u].pc = "done"]
    /\ UNCHANGED <<file, active_tasks, clock, main, ops, nextId, missed, removed, engine>>

UnitStep(u) ==
    \/ RunTaskCheck(u)
    \/ RunTaskAdd(u)
    \/ OneTimeStart(u)
    \/ OneTimeWake(u)
    \/ OneTimeSync(u)
    \/ RepeatLoop(u)
    \/ RepeatWake(u)
    \/ RepeatSync(u)
    \/ UnitUpdateRead(u)
    \/ UnitUpdateResave(u)
    \/ UnitUpdateSave(u)
    \/ UnitRemoveRead(u)
    \/ UnitRemoveResave(u)
    \/ UnitRemoveSave(u)
    \/ UnitRemoveDiscard(u)
    \/ SyncNow(u)

MainStep ==
    \/ LoadStartRead
    \/ LoadStartResave
    \/ LoadStartIter
    \/ LoadStartNow
    \/ LoadStartUpdateRead
    \/ LoadStartUpdateResave
    \/ LoadStartUpdateSave
    \/ RemoveRead
    \/ RemoveResave
    \/ RemoveSave
    \/ RemoveDiscard
    \/ AddRead
    \/ AddResave
    \/ AddSave
    \/ ScheduleShouldSave
    \/ \E when \in WhenTimes, repeat \in BOOLEAN, save \in BOOLEAN :
            ScheduleSync(when, repeat, save)
    \/ \E save \in BOOLEAN : RunNow(save)

Next ==
    \/ Tick
    \/ MainStep
    \/ \E u \in UnitIds : UnitStep(u)

Spec == Init /\ [][Next]_vars

\* ------------------------------------------- collaborator calls (spec 4.3, 6)
\* "remove saved task": remove_task(id) called from the interface thread
CallRemoveTask(id) ==
    /\ main.pc = "ui"
    /\ ops > 0
    /\ id \in ids(file)
    /\ ops' = ops - 1
    /\ main' = [main EXCEPT !.pc = "rm_read", !.id = id, !.ret = "ui"]
    /\ UNCHANGED <<file, active_tasks, clock, units, syncs, nextId, missed, removed, engine>>

\* manual "run now" of a saved task: run_task(task) on a thread of its own
CallRunTask(i) ==
    /\ main.pc = "ui"
    /\ ops > 0
    /\ i \in DOMAIN file
    /\ ~file[i].is_template
    /\ ops' = ops - 1
    /\ units' = started(units, Unit(file[i]))
    /\ UNCHANGED <<file, active_tasks, clock, main, syncs, nextId, missed, removed, engine>>

NextApi ==
    \/ Next
    \/ \E id \in TaskIds : CallRemoveTask(id)
    \/ \E i \in 1..(MaxInit + MaxOps) : CallRunTask(i)

SpecApi == Init /\ [][NextApi]_vars

\* ------------------------------- startup on a document with unusable records
\* a record without some of its keys
drop(task, keys) == [f \in DOMAIN task \ keys |-> task[f]]

\* non-template records whose scheduled_datetime is malformed or missing
BadRecords(id) ==
    {[Task(id, 0, r, FALSE) EXCEPT !.scheduled_datetime = Malformed] : r \in BOOLEAN}
    \cup {drop(Task(id, 0, r, FALSE), {"scheduled_datetime"}) : r \in BOOLEAN}

BadFiles ==
    UNION {{f \in [1..n -> UNION {InitRecords(i) \cup BadRecords(i) : i \in 1..MaxBoot}] :
              \A i \in 1..n : f[i].id = i} : n \in 0..MaxBoot}

InitBad ==
    /\ file \in BadFiles
    /\ active_tasks = {}
    /\ clock = StartTime
    /\ main = [MainIdle EXCEPT !.pc = "ls_read", !.ret = "ls_iter"]
    /\ units = <<>>
    /\ syncs = [i \in TaskIds \cup {NoId} |-> 0]
    /\ ops = 1
    /\ nextId = MaxBoot + 1
    /\ missed = {}
    /\ removed = {}
    /\ EngineIdle

\* the steps of startup recovery
BootStep ==
    \/ LoadStartRead
    \/ LoadStartResave
    \/ LoadStartIter
    \/ LoadStartNow
    \/ LoadStartUpdateRead
    \/ LoadStartUpdateResave
    \/ LoadStartUpdateSave
    \/ RemoveRead
    \/ RemoveResave
    \/ RemoveSave
    \/ RemoveDiscard

\* the steps of a thread on run_task
RunStep(u) ==
    \/ RunTaskCheck(u)
    \/ RunTaskAdd(u)
    \/ OneTimeStart(u)
    \/ OneTimeWake(u)
    \/ OneTimeSync(u)
    \/ RepeatLoop(u)
    \/ RepeatWake(u)
    \/ RepeatSync(u)
    \/ UnitUpdateRead(u)
    \/ UnitUpdateResave(u)
    \/ UnitUpdateSave(u)
    \/ UnitRemoveRead(u)
    \/ UnitRemoveResave(u)
    \/ UnitRemoveSave(u)
    \/ UnitRemoveDiscard(u)

NextBoot ==
    \/ Tick
    \/ BootStep
    \/ \E u \in UnitIds : RunStep(u)

SpecBoot == InitBad /\ [][NextBoot]_vars

\* documents written before records had an id, is_template or last_ran
LegacyRecords(id) ==
    {drop(t, keys) :
        t \in {Task(id, StartTime - 1, FALSE, FALSE),
               Task(id, StartTime + 1, FALSE, FALSE),
               Task(id, StartTime + 1, TRUE, FALSE)},
        keys \in SUBSET Defaults}

LegacyFiles ==
    UNION {{f \in [1..n -> UNION {LegacyRecords(i) : i \in 1..MaxBoot}] :
              \A i \in 1..n : f[i] \in LegacyRecords(i)} : n \in 0..MaxBoot}

InitLegacy ==
    /\ file \in LegacyFiles
    /\ active_tasks = {}
    /\ clock = StartTime
    /\ main = [MainIdle EXCEPT !.pc = "ls_read", !.ret = "ls_iter"]
    /\ units = <<>>
    /\ syncs = [i \in TaskIds \cup {NoId} |-> 0]
    /\ ops = 0
    /\ nextId = MaxBoot + 1
    /\ missed = {}
    /\ removed = {}
    /\ EngineIdle

SpecLegacy == InitLegacy /\ [][NextBoot]_vars

\* spec 2, "collaborator constructs a task request -> TaskManager.add/run":
\* run_task on a thread of its own, for a request whose scheduled_datetime
\* the collaborator did not validate
CallRunBadRequest(repeat) ==
    /\ main.pc = "ui"
    /\ ops > 0
    /\ ops' = ops - 1
    /\ nextId' = nextId + 1
    /\ units' = started(units,
            Unit([Task(nextId, 0, repeat, FALSE) EXCEPT !.scheduled_datetime = Malformed]))
    /\ UNCHANGED <<file, active_tasks, clock, main, syncs, missed, removed, engine>>

NextBad ==
    \/ NextBoot
    \/ \E repeat \in BOOLEAN : CallRunBadRequest(repeat)

SpecBad == InitBad /\ [][NextBad]_vars

\* ------------------------------------------------ the synchronization engine
\* The files under the source path by relative path, and the entries under
\* destination/<source name>; Orphan is a destination entry with no
\* counterpart in any source tree.
Names == 1..MaxFiles
Orphan == 0
Callers == 1..2

\* source.rglob('*') filtered by is_file, line 150 (a single file when
\* source.is_file(), line 118): the files in the order they are visited
RECURSIVE listing(_)
listing(S) ==
    IF S = {} THEN <<>>
    ELSE LET n == CHOOSE x \in S : \A y \in S : x <= y
         IN  <<n>> \o listing(S \ {n})

\* lines 134 and 156 with >= for >
stale_or_equal(src, dst, item) ==
    item \notin DOMAIN dst \/ src[item] >= dst[item].mtime

\* lines 134 and 156: not dest.exists() or source mtime > dest mtime
stale(src, dst, item) ==
    item \notin DOMAIN dst \/ src[item] > dst[item].mtime

\* a copy of the content alone, the entry dated at the epoch
copy_content_only(mtime) == [mtime |-> 0, data |-> "src"]

\* lines 136 and 158, shutil.copy2: content and modification time
copy2(mtime) == [mtime |-> mtime, data |-> "src"]

\* an error that ends the enumeration
rest_abandoned(todo) == <<>>

\* lines 162-167: the handlers are inside the loop, which goes on
rest(todo) == Tail(todo)

\* what one call did, by its own account
Nothing == [copied |-> {}, skipped |-> {}, errors |-> <<>>]

Call(runs) ==
    [pc |-> "idle", left |-> runs, todo |-> <<>>, kind |-> "none", local |-> 0,
     did |-> Nothing, past |-> <<>>]

Trees == UNION {[S -> 1..MaxMtime] : S \in SUBSET Names}

Destinations ==
    UNION {[D -> [mtime : 1..MaxMtime, data : {"old"}]] :
              D \in SUBSET (Names \cup {Orphan})}

\* no task is scheduled while the engine is followed file by file
SchedulerIdle ==
    /\ file = <<>>
    /\ active_tasks = {}
    /\ clock = StartTime
    /\ main = MainIdle
    /\ units = <<>>
    /\ syncs = [i \in TaskIds \cup {NoId} |-> 0]
    /\ ops = 0
    /\ nextId = 1
    /\ missed = {}
    /\ removed = {}

InitEngine(callers, runs, kinds) ==
    /\ SchedulerIdle
    /\ source \in Trees
    /\ dest \in Destinations
    /\ faults \in [DOMAIN source -> kinds]
    /\ counters = Zero
    /\ calls = [c \in callers |-> Call(runs)]

\* sync_files, lines 107-121: the counters are reset, the source is listed
SyncBegin(c) ==
    /\ c \in DOMAIN calls
    /\ calls[c].pc = "idle"
    /\ calls[c].left > 0
    /\ counters' = Zero
    /\ calls' = [calls EXCEPT ![c].pc = "file", ![c].left = @ - 1,
                              ![c].todo = listing(DOMAIN source),
                              ![c].did = Nothing]
    /\ UNCHANGED <<source, dest, faults, scheduler>>

\* lines 152-158 (134-136 for a single file): the test, the copy, and the
\* reading of the counter that self.x += 1 is about to write
SyncTest(c) ==
    /\ c \in DOMAIN calls
    /\ calls[c].pc = "file"
    /\ calls[c].todo # <<>>
    /\ LET item == Head(calls[c].todo)
       IN  IF ~stale(source, dest, item)
           THEN /\ calls' = [calls EXCEPT ![c].pc = "count", ![c].kind = "skipped",
                                          ![c].local = counters.skipped_count]
                /\ UNCHANGED dest
           ELSE IF faults[item] # "none"
           THEN /\ calls' = [calls EXCEPT ![c].pc = "count", ![c].kind = faults[item],
                                          ![c].local = counters.error_count]
                /\ UNCHANGED dest
           ELSE /\ calls' = [calls EXCEPT ![c].pc = "count", ![c].kind = "copied",
                                          ![c].local = counters.copied_count]
                /\ dest' = [n \in DOMAIN dest \cup {item} |->
                                IF n = item THEN copy2(source[item]) ELSE dest[n]]
    /\ UNCHANGED <<source, faults, counters, scheduler>>

\* lines 137, 139, 141-142, 144-145 (159, 161, 163-167): the counter is
\* written, an error is appended to error_files
SyncCount(c) ==
    /\ c \in DOMAIN calls
    /\ calls[c].pc = "count"
    /\ LET item == Head(calls[c].todo)
           kind == calls[c].kind
           n == calls[c].local + 1
       IN  /\ counters' =
                IF kind = "copied" THEN [counters EXCEPT !.copied_count = n]
                ELSE IF kind = "skipped" THEN [counters EXCEPT !.skipped_count = n]
                ELSE [counters EXCEPT
                        !.error_count = n,
                        !.error_files = Append(@, [file |-> item, why |-> kind])]
           /\ calls' = [calls EXCEPT
                ![c].pc = "file",
                ![c].kind = "none",
                ![c].local = 0,
                ![c].todo = IF kind \in {"copied", "skipped"} THEN Tail(@)
                            ELSE rest(@),
                ![c].did =
                    IF kind = "copied" THEN [@ EXCEPT !.copied = @ \cup {item}]
                    ELSE IF kind = "skipped" THEN [@ EXCEPT !.skipped = @ \cup {item}]
                    ELSE [@ EXCEPT !.errors = Append(@, [file |-> item, why |-> kind])]]
    /\ UNCHANGED <<source, dest, faults, scheduler>>

\* lines 123-128: the call reports the counters it finds and returns
SyncEnd(c) ==
    /\ c \in DOMAIN calls
    /\ calls[c].pc = "file"
    /\ calls[c].todo = <<>>
    /\ calls' = [calls EXCEPT
            ![c].pc = "idle",
            ![c].past = Append(@, [report |-> counters, did |-> calls[c].did])]
    /\ UNCHANGED <<source, dest, faults, counters, scheduler>>

NextSync ==
    \E c \in Callers : SyncBegin(c) \/ SyncTest(c) \/ SyncCount(c) \/ SyncEnd(c)

\* one caller, two calls in succession, no file system error
InitSync == InitEngine({1}, MaxRuns, {"none"})

SpecSync == InitSync /\ [][NextSync]_vars

\* one caller on a file system that refuses some files
InitSyncFault == InitEngine({1}, MaxRuns, {"none", "denied", "other"})

SpecSyncFault == InitSyncFault /\ [][NextSync]_vars

\* two threads in sync_files at once, one call each
InitSyncPar == InitEngine(Callers, 1, {"none"})

SpecSyncPar == InitSyncPar /\ [][NextSync]_vars

\* ================================================================ claims
OneTime(u) == units[u].task.id # NoId /\ ~units[u].task.is_repeat
Repeat(u) == units[u].task.id # NoId /\ units[u].task.is_repeat

\* a unit that has passed the guard and has not finished
Executing(u) ==
    units[u].pc \notin {"rt_check", "rt_add", "returned", "done", "raised", "sync_now"}

\* C1: at most one execution unit runs _run_one_time_task or _run_repeat_task
\* for a task id, however the run_task calls for that id interleave.
C1_DispatchGuard ==
    \A u, v \in DOMAIN units :
        (u # v /\ units[u].task.id = units[v].task.id /\ Executing(u))
            => ~Executing(v)

\* C2: a one-time task dispatched for a future instant T is synced exactly
\* once, not before T, and its unit does sync, last_ran update, removal in
\* that order.
Lifecycle == <<"sync", "last_ran", "remove">>

C2_OneTimeLifecycle ==
    /\ [](\A u \in DOMAIN units : OneTime(u) =>
            /\ units[u].log = SubSeq(Lifecycle, 1, Len(units[u].log))
            /\ syncs[units[u].task.id] = (IF units[u].log = <<>> THEN 0 ELSE 1)
            /\ units[u].pc = "done" => units[u].log = Lifecycle)
    /\ [][\A u \in DOMAIN units :
            (OneTime(u) /\ syncs'[units[u].task.id] # syncs[units[u].task.id])
                => clock >= fromisoformat(units[u].task.scheduled_datetime)]_vars

C2_Witness ==
    \E u \in DOMAIN units :
        /\ OneTime(u)
        /\ units[u].pc = "done"
        /\ fromisoformat(units[u].task.scheduled_datetime) > StartTime
        /\ syncs[units[u].task.id] = 1

\* C3: once a one-time task's unit has finished, its record is absent from
\* the document in every later state.
C3_RemovedStaysRemoved ==
    \A u \in DOMAIN units :
        (OneTime(u) /\ units[u].pc = "done") => units[u].task.id \notin ids(file)

\* C4: a one-time record whose time has come when startup recovery
\* inspects it is removed from the document, gets no execution unit and is
\* never synced.
C4_MissedRecovery ==
    /\ [](\A id \in missed :
            syncs[id] = 0 /\ \A u \in DOMAIN units : units[u].task.id # id)
    /\ [][\A id \in missed' \ missed :
            main'.pc = "rm_read" /\ main'.id = id /\ main'.ret = "ls_iter"]_vars
    /\ [][(main.pc = "rm_save" /\ main.ret = "ls_iter" /\ main'.pc = "rm_discard")
            => (main.id \in missed /\ main.id \notin ids(file'))]_vars

C4_Witness ==
    \E id \in missed :
        /\ main.pc = "ui"
        /\ id \notin ids(file)
        /\ syncs[id] = 0
        /\ clock > StartTime

\* the stored record of a task id
record(tasks, id) == tasks[firstIndex(tasks, id)]

\* C5: when a repeat unit's update after a run that fired at next_run is
\* saved, the stored scheduled_datetime is next_run plus one day, whatever
\* the time the sync took, and last_ran is written by the same save.
C5_RecurringAdvancement ==
    [][\A u \in DOMAIN units :
        (/\ Repeat(u)
         /\ units[u].pc = "upd_save"
         /\ units'[u].pc = "rp_loop"
         /\ units[u].task.id \in ids(units[u].tasks))
        => /\ units[u].task.id \in ids(file')
           /\ record(file', units[u].task.id).scheduled_datetime
                = isoformat(units[u].next_run + DayLen)
           /\ record(file', units[u].task.id).last_ran # None
           /\ fromisoformat(record(file', units[u].task.id).last_ran)
                >= units[u].next_run
           /\ record(units[u].tasks, units[u].task.id).last_ran
                # record(file', units[u].task.id).last_ran]_vars

C5_Witness ==
    \E u \in DOMAIN units :
        /\ Repeat(u)
        /\ units[u].pc = "rp_loop"
        /\ syncs[units[u].task.id] = 1
        /\ units[u].task.id \in ids(file)
        /\ record(file, units[u].task.id).scheduled_datetime
                = isoformat(units[u].next_run + DayLen)
        /\ record(file, units[u].task.id).last_ran # None
        /\ fromisoformat(record(file, units[u].task.id).last_ran) > units[u].next_run

\* C6: a repeat task's stored scheduled_datetime is its next trigger
\* instant; in particular its unit never runs the sync before the stored
\* scheduled_datetime.
C6_StoredIsNextFire ==
    [][\A u \in DOMAIN units :
        (/\ Repeat(u)
         /\ syncs'[units[u].task.id] # syncs[units[u].task.id]
         /\ units[u].task.id \in ids(file))
        => clock >= fromisoformat(record(file, units[u].task.id).scheduled_datetime)]_vars

\* C7: the scheduled_datetime startup recovery persists for a repeat record
\* keeps the time of day, is strictly after the instant the record was
\* processed at and at most one day after it, and nothing has been synced.
C7_StartupRepeat ==
    [][(main.pc = "upd_save" /\ main'.pc = "ls_iter" /\ main.id \in ids(file'))
        => /\ record(file', main.id).scheduled_datetime.tod
                = main.tasks[main.i].scheduled_datetime.tod
           /\ fromisoformat(record(file', main.id).scheduled_datetime) > main.now
           /\ fromisoformat(record(file', main.id).scheduled_datetime)
                <= main.now + DayLen
           /\ syncs[main.id] = 0]_vars

\* C8: a stored template is never in the active set, has no execution unit
\* and is never synced.
C8_TemplateInert ==
    \A i \in DOMAIN file :
        file[i].is_template =>
            /\ file[i].id \notin active_tasks
            /\ \A u \in DOMAIN units : units[u].task.id # file[i].id
            /\ syncs[file[i].id] = 0

C8_Witness ==
    /\ main.pc = "ui"
    /\ syncs[NoId] = 1
    /\ \E i, j \in DOMAIN file :
        /\ file[i].is_template /\ file[i].id <= MaxInit
        /\ file[j].is_template /\ file[j].id > MaxInit

\* C9: a repeat record in the document stays there as long as remove_task
\* is not called with its id (no specification step of Spec calls it for a
\* repeat task).
C9_RepeatStays ==
    [][\A i \in DOMAIN file :
        file[i].is_repeat => file[i].id \in ids(file')]_vars

\* C10: once remove_task has returned for a repeat task whose unit is
\* active, the unit runs at most one more sync (the run in flight).
C10_RemovalStopsRepeat ==
    \A u \in DOMAIN units : Repeat(u) => units[u].late <= 1

\* C11: when startup recovery ends on a document that holds a record with a
\* malformed or missing scheduled_datetime, every other valid non-template
\* record that is a repeat task or still in the future has an execution unit,
\* and no unit of a valid task has been terminated by the failure.
C11_InputErrorIsolated ==
    main.pc \in {"ui", "exited"} =>
        /\ \A i \in DOMAIN main.tasks :
                (/\ ~main.tasks[i].is_template
                 /\ ~raises(main.tasks[i])
                 /\ \/ main.tasks[i].is_repeat
                    \/ fromisoformat(main.tasks[i].scheduled_datetime) > clock)
                => \E u \in DOMAIN units : units[u].task.id = main.tasks[i].id
        /\ \A u \in DOMAIN units :
                ~raises(units[u].task) => (alive \/ units[u].pc \in {"done", "returned"})

\* C12: a Create-and-schedule request whose `when` is at or before the
\* current instant changes neither the document nor the active set, starts no
\* execution unit and leaves the dialog where it was.
C12_PastRejected ==
    [][\A when \in WhenTimes, repeat \in BOOLEAN, save \in BOOLEAN :
        (ScheduleSync(when, repeat, save) /\ when <= clock)
            => /\ file' = file
               /\ active_tasks' = active_tasks
               /\ units' = units
               /\ main' = main
               /\ nextId' = nextId]_vars

\* a request has been spent, and neither a thread on sync_files nor a new id
\* came of it
C12_Witness ==
    /\ ops < MaxOps
    /\ main.pc = "ui"
    /\ nextId = MaxInit + 1
    /\ \A u \in DOMAIN units : units[u].task.id # NoId

\* the files of the source tree, and the k-th completed call of caller c
Files == DOMAIN source
completed(c, k) == calls[c].past[k]

\* C13: when sync_files has run twice in succession on an unchanged source,
\* the second call copies nothing and counts every source file as skipped;
\* every file the first call copied has the source's modification time at
\* the destination.
C13_Idempotent ==
    \A c \in DOMAIN calls :
        /\ Len(calls[c].past) >= 1 =>
                \A n \in completed(c, 1).did.copied :
                    n \in DOMAIN dest /\ dest[n].mtime = source[n]
        /\ Len(calls[c].past) >= 2 =>
                /\ completed(c, 2).report.copied_count = 0
                /\ completed(c, 2).did.copied = {}
                /\ completed(c, 2).report.skipped_count = Cardinality(Files)
                /\ completed(c, 2).did.skipped = Files
                /\ completed(c, 2).report.error_count = 0

C13_Witness ==
    \E c \in DOMAIN calls :
        /\ Len(calls[c].past) = 2
        /\ Cardinality(completed(c, 1).did.copied) >= 2
        /\ completed(c, 2).report.skipped_count = Cardinality(Files)

\* C14: the step that examines a source file copies it (content and
\* modification time) exactly when the destination entry is absent or
\* strictly older, and otherwise counts it as skipped and leaves the
\* destination as it is; the counter of that outcome then goes up by one; no
\* step changes a destination entry other than the examined file's, and none
\* changes or deletes an entry with no counterpart in source.
C14_CopyIfNewer ==
    [][\A c \in DOMAIN calls :
        /\ (calls[c].pc = "file" /\ calls'[c].pc = "count") =>
              LET item == Head(calls[c].todo)
              IN  /\ (item \notin DOMAIN dest \/ source[item] > dest[item].mtime)
                        => /\ item \in DOMAIN dest'
                           /\ dest'[item] = [mtime |-> source[item], data |-> "src"]
                           /\ calls'[c].kind = "copied"
                  /\ (item \in DOMAIN dest /\ source[item] <= dest[item].mtime)
                        => /\ dest' = dest
                           /\ calls'[c].kind = "skipped"
                  /\ \A n \in DOMAIN dest \ {item} :
                        n \in DOMAIN dest' /\ dest'[n] = dest[n]
        /\ (calls[c].pc = "count" /\ calls'[c].pc = "file") =>
              /\ dest' = dest
              /\ calls[c].kind = "copied" =>
                    counters' = [counters EXCEPT !.copied_count = @ + 1]
              /\ calls[c].kind = "skipped" =>
                    counters' = [counters EXCEPT !.skipped_count = @ + 1]
        /\ \A n \in DOMAIN dest \ Files :
              n \in DOMAIN dest' /\ dest'[n] = dest[n]]_vars

C14_Witness ==
    \E c \in DOMAIN calls :
        /\ Len(calls[c].past) = 1
        /\ completed(c, 1).did.copied # {}
        /\ completed(c, 1).did.skipped # {}
        /\ \E n \in completed(c, 1).did.skipped : dest[n].mtime = source[n]
        /\ \E n \in completed(c, 1).did.skipped : dest[n].mtime > source[n]
        /\ Orphan \in DOMAIN dest
        /\ dest[Orphan].data = "old"

\* the source files whose copy the file system refuses
failing ==
    {n \in Files :
        faults[n] # "none" /\ (n \notin DOMAIN dest \/ source[n] > dest[n].mtime)}

\* C15: a completed call on a tree of N files of which exactly one fails
\* reports one error with one entry in the error list, naming that file and
\* whether access was denied; every other file was copied or skipped by the
\* call, and copied + skipped + errors = N.
C15_FaultIsolation ==
    \A c \in DOMAIN calls : \A k \in DOMAIN calls[c].past :
        Cardinality(failing) = 1 =>
            LET r == completed(c, k).report
                d == completed(c, k).did
            IN  /\ r.error_count = 1
                /\ Len(r.error_files) = 1
                /\ r.error_files[1].file \in failing
                /\ r.error_files[1].why = faults[r.error_files[1].file]
                /\ d.copied \cup d.skipped = Files \ failing
                /\ r.copied_count = Cardinality(d.copied)
                /\ r.skipped_count = Cardinality(d.skipped)
                /\ r.copied_count + r.skipped_count + r.error_count
                        = Cardinality(Files)

C15_Witness ==
    \E c \in DOMAIN calls :
        /\ Len(calls[c].past) >= 1
        /\ Cardinality(Files) = MaxFiles
        /\ failing = {1}
        /\ faults[1] = "denied"
        /\ completed(c, 1).report.error_count = 1
        /\ completed(c, 1).report.copied_count >= 1

\* C20: the counts and the error list a sync_files call reports when it
\* completes are those of the files that call processed, and copied +
\* skipped + errors = N, whatever other call runs at the same time.
C20_OwnResult ==
    \A c \in DOMAIN calls : \A k \in DOMAIN calls[c].past :
        LET r == completed(c, k).report
            d == completed(c, k).did
        IN  /\ r.copied_count = Cardinality(d.copied)
            /\ r.skipped_count = Cardinality(d.skipped)
            /\ r.error_count = Len(d.errors)
            /\ r.error_files = d.errors
            /\ r.copied_count + r.skipped_count + r.error_count = Cardinality(Files)

migrated(tasks) ==
    /\ \A i \in DOMAIN tasks : Defaults \subseteq DOMAIN tasks[i]
    /\ \A i, j \in DOMAIN tasks : i # j => tasks[i].id # tasks[j].id

\* C17: the write of the first load_tasks leaves every record of the
\* document with id, is_template and last_ran, the fields it had unchanged,
\* the added ids new and pairwise distinct, and load_tasks returns what it
\* wrote; from then on the document stays migrated, and every later
\* load_tasks draws no id, returns the records as they are stored and writes
\* back what it read.
C17_MigrationOnce ==
    /\ [](main.pc \notin {"ls_read", "ls_resave"} => migrated(file))
    /\ [][(main.pc = "ls_resave" /\ main'.pc = "ls_iter") =>
            /\ main'.tasks = file'
            /\ migrated(file')
            /\ Len(file') = Len(file)
            /\ \A i \in DOMAIN file :
                    /\ \A f \in DOMAIN file[i] : file'[i][f] = file[i][f]
                    /\ "is_template" \notin DOMAIN file[i] => file'[i].is_template = FALSE
                    /\ "last_ran" \notin DOMAIN file[i] => file'[i].last_ran = None
                    /\ "id" \notin DOMAIN file[i] =>
                            \A j \in DOMAIN file :
                                "id" \in DOMAIN file[j] => file'[i].id # file[j].id]_vars
    /\ [][main.pc # "ls_read" => nextId' = nextId]_vars
    /\ [][(main.pc \in {"upd_read", "rm_read"} /\ main'.pc # main.pc)
            => main'.loaded = file]_vars
    /\ [][(main.pc \in {"upd_resave", "rm_resave"} /\ main'.pc # main.pc)
            => file' = main.loaded]_vars
    /\ [][\A u \in DOMAIN units :
            /\ (units[u].pc \in {"upd_read", "rm_read"} /\ units'[u].pc # units[u].pc)
                    => units'[u].tasks = file
            /\ (units[u].pc \in {"upd_resave", "rm_resave"} /\ units'[u].pc # units[u].pc)
                    => file' = units[u].tasks]_vars

\* two records came without an id, and startup's update_task has loaded the
\* document a second time
C17_Witness ==
    /\ main.pc = "upd_save"
    /\ nextId = MaxBoot + 3
    /\ \E i, j \in DOMAIN file :
            /\ i # j
            /\ file[i].id > MaxBoot
            /\ file[j].id > MaxBoot
            /\ file[i].id # file[j].id
    /\ main.loaded = file

\* C18: a one-time task that _run_one_time_task picks up at or after its
\* scheduled_datetime is not synced: the unit goes on to delete the record.
C18_MissedAtDispatch ==
    [][\A u \in DOMAIN units :
        (/\ OneTime(u)
         /\ units[u].pc = "ot_start"
         /\ units'[u].pc # "ot_start"
         /\ ~raises(units[u].task)
         /\ fromisoformat(units[u].task.scheduled_datetime) <= clock)
        => /\ units'[u].pc = "rm_read"
           /\ syncs[units[u].task.id] = 0]_vars

\* a one-time unit whose task was removed by remove_task before it ran its sync
RemovedBeforeSync(u) == OneTime(u) /\ units[u].late >= 1

====
